---- MODULE Spec2Model ----
(***************************************************************************)
(* Model of telbot.py: a Telegram bot that looks up the MoT history of a   *)
(* vehicle, has a language model summarise it and answers follow-up        *)
(* questions about the summary.                                            *)
(*                                                                         *)
(* Texts are sequences of chunks.  A text typed by a user or produced by   *)
(* the generation service is a sequence of one-character strings, so that  *)
(* strip(), upper() and lower() are computed character by character; a     *)
(* literal of the program is one chunk, and an f-string is the             *)
(* concatenation of its literal chunks and its interpolated texts.  The    *)
(* emoji of the program's literals are left out of the chunks.             *)
(*                                                                         *)
(* An optional Python value is a set: None is {} and a value v is {v}.     *)
(* A dict is a function whose domain is the set of keys present.           *)
(*                                                                         *)
(* One action is one update processed by the application: the dispatch to  *)
(* a handler, the whole handler with the outbound calls it makes, and the  *)
(* conversation-state update that follows its return.  A function that     *)
(* calls an external service is the set of its possible outcomes, one for  *)
(* each answer the service can give to the calls actually made.  Replies   *)
(* sent with reply_text are taken to be delivered.                         *)
(***************************************************************************)
EXTENDS Integers, Sequences, FiniteSets, TLC

(***************************************************************************)
(* Bounds of the model.                                                    *)
(***************************************************************************)
MaxChats == 2
NumTokens == 1
NumAnswers == 1

\* No handler reads the data or the conversation of another user: one user is modelled.
Users == {1}
Chats == 1..MaxChats

(***************************************************************************)
(* Program constants.                                                      *)
(***************************************************************************)
MOT_QUERY == 0
FOLLOW_UP == 1
END == -1
SUMMARY_MAX_TOKENS == 1000
FOLLOW_UP_MAX_TOKENS == 500

None == {}
Some(v) == {v}
Value(opt) == CHOOSE v \in opt : TRUE

EmptyDict == [k \in {} |-> <<>>]
DictGet(d, k, default) == IF k \in DOMAIN d THEN d[k] ELSE default

(***************************************************************************)
(* str.strip(), str.upper(), str.lower() on texts.                         *)
(***************************************************************************)
Whitespace == {" ", "\n", "\t"}

LowerCase == <<"a","b","c","d","e","f","g","h","i","j","k","l","m",
               "n","o","p","q","r","s","t","u","v","w","x","y","z">>
UpperCase == <<"A","B","C","D","E","F","G","H","I","J","K","L","M",
               "N","O","P","Q","R","S","T","U","V","W","X","Y","Z">>

IndexIn(seq, c) == CHOOSE i \in 1..Len(seq) : seq[i] = c
IsIn(seq, c) == \E i \in 1..Len(seq) : seq[i] = c

UpperChar(c) == IF IsIn(LowerCase, c) THEN UpperCase[IndexIn(LowerCase, c)] ELSE c
LowerChar(c) == IF IsIn(UpperCase, c) THEN LowerCase[IndexIn(UpperCase, c)] ELSE c

Upper(text) == [i \in 1..Len(text) |-> UpperChar(text[i])]
Lower(text) == [i \in 1..Len(text) |-> LowerChar(text[i])]

RECURSIVE LStrip(_)
LStrip(text) ==
    IF text # <<>> /\ Head(text) \in Whitespace THEN LStrip(Tail(text)) ELSE text

RECURSIVE RStrip(_)
RStrip(text) ==
    IF text # <<>> /\ text[Len(text)] \in Whitespace
    THEN RStrip(SubSeq(text, 1, Len(text) - 1))
    ELSE text

Strip(text) == RStrip(LStrip(text))

(***************************************************************************)
(* The literals of the program.                                            *)
(***************************************************************************)
NoDataMessage == <<"No MoT test data available for this vehicle.">>
NoSummaryPlaceholder == <<"No MoT summary available.">>
NoHistoryNotice ==
    <<"No MoT history found. Please check the registration number and try again.">>
FollowUpPrompt ==
    <<"You can ask further questions about this vehicle's history. Type your question or type 'exit' to stop.">>
Farewell == <<"Exiting chat. Have a great day!">>
ExitKeyword == <<"e", "x", "i", "t">>

FetchingNotice(user_input) ==
    <<"Fetching MoT history for: ">> \o user_input \o <<"...">>
SummaryReply(summary) == <<"**MoT Summary:**\n">> \o summary
AnswerReply(answer) == <<"AI: ">> \o answer
SummaryError(e) == <<"Error generating summary: ">> \o e
ResponseError(e) == <<"Error generating response: ">> \o e

(***************************************************************************)
(* The inputs: the texts users send and the answers of the services.       *)
(***************************************************************************)
PlainTexts ==
    { <<"e","x","i","t">>,
      <<" ","E","x","i","T"," ","\n">>,
      <<"e","x","i","t"," ","?">>,
      <<" ","a","b","1"," ">>,
      <<"w","h","y","?">> }

CommandTexts ==
    { <<"/","s","t","a","r","t">>,
      <<"/","S","t","a","r","t"," ","a","b","1">>,
      <<"/","h","e","l","p">> }

Texts == PlainTexts \cup CommandTexts

AnswerNames == <<"answerA", "answerB", "answerC">>

TokenNames == <<"tokenA", "tokenB", "tokenC">>
Tokens == {TokenNames[i] : i \in 1..NumTokens}

TokenJsons ==
    {EmptyDict} \cup {[k \in {"access_token"} |-> t] : t \in Tokens \cup {""}}

TokenResponses ==
    {[ok |-> FALSE, json |-> EmptyDict]} \cup {[ok |-> TRUE, json |-> j] : j \in TokenJsons}

PassedTest ==
    [completedDate |-> "2024.01.01", testResult |-> "PASSED",
     odometerValue |-> "10000", odometerUnit |-> "mi"]
FailedTest ==
    [completedDate |-> "2023.01.01", testResult |-> "FAILED",
     defects |-> << [text |-> "corroded", type |-> "MAJOR", dangerous |-> "True"] >>]

VehicleRecords ==
    {EmptyDict,
     [registration |-> "AB1", make |-> "LAND ROVER"],
     [registration |-> "AB1", make |-> "LAND ROVER", motTests |-> <<>>],
     [registration |-> "AB1", make |-> "LAND ROVER", model |-> "DEFENDER",
      firstUsedDate |-> "2001.01.01", motTests |-> <<PassedTest>>],
     [model |-> "DEFENDER", motTests |-> <<PassedTest, FailedTest>>]}

RecordResponses ==
    {[ok |-> FALSE, json |-> EmptyDict]} \cup {[ok |-> TRUE, json |-> j] : j \in VehicleRecords}

GenContents ==
    {<<" ">>} \cup {<<" ", AnswerNames[i], "\n">> : i \in 1..NumAnswers}
GenErrors == {<<"timeout">>}

GenResponses ==
    {[ok |-> TRUE, content |-> c, error |-> <<>>] : c \in GenContents}
    \cup {[ok |-> FALSE, content |-> <<>>, error |-> e] : e \in GenErrors}

(***************************************************************************)
(* get_access_token: one POST to the token endpoint; None on a failure.    *)
(***************************************************************************)
TokenCall(resp, returned) ==
    [api |-> "token", method |-> "POST", grant_type |-> "client_credentials",
     ok |-> resp.ok, returned |-> returned]

AccessToken(resp) ==
    IF resp.ok /\ "access_token" \in DOMAIN resp.json
    THEN Some(resp.json["access_token"])
    ELSE None

get_access_token ==
    {[calls |-> <<TokenCall(resp, AccessToken(resp))>>, value |-> AccessToken(resp)]
     : resp \in TokenResponses}

(***************************************************************************)
(* fetch_vehicle_data: the token exchange, then one GET with that token.   *)
(***************************************************************************)
RecordCall(registration, token, resp) ==
    [api |-> "record", method |-> "GET", registration |-> registration,
     token |-> token, ok |-> resp.ok]

RecordOutcomes(registration, t, token) ==
    {[calls |-> t.calls \o <<RecordCall(registration, token, resp)>>,
      value |-> IF resp.ok THEN Some(resp.json) ELSE None] : resp \in RecordResponses}

fetch_vehicle_data_TokenUnchecked(registration) ==
    UNION {RecordOutcomes(registration, t, IF t.value = None THEN "" ELSE Value(t.value))
           : t \in get_access_token}

fetch_vehicle_data(registration) ==
    UNION {IF t.value = None \/ t.value = Some("")
           THEN {[calls |-> t.calls, value |-> None]}
           ELSE RecordOutcomes(registration, t, Value(t.value))
           : t \in get_access_token}

(***************************************************************************)
(* generate_mot_summary: the fixed message for a record without tests,     *)
(* else the rendered brief sent to the generation service.                 *)
(***************************************************************************)
Falsy(opt) == opt = None \/ DOMAIN Value(opt) = {}

HasNoTests_KeyOnly(vehicle_data) ==
    \/ Falsy(vehicle_data)
    \/ "motTests" \notin DOMAIN Value(vehicle_data)

HasNoTests(vehicle_data) ==
    \/ Falsy(vehicle_data)
    \/ "motTests" \notin DOMAIN Value(vehicle_data)
    \/ Value(vehicle_data).motTests = <<>>

RECURSIVE RenderDefects(_)
RenderDefects(defects) ==
    IF defects = <<>> THEN <<>>
    ELSE LET i == Head(defects)
         IN  <<"  Defect: ", DictGet(i, "text", "N/A"),
               " (Type: ", DictGet(i, "type", "N/A"),
               ", Dangerous: ", DictGet(i, "dangerous", "N/A"), ")\n">>
             \o RenderDefects(Tail(defects))

RenderTest(test) ==
    <<"- Test Date: ", DictGet(test, "completedDate", "N/A"), ", ",
      "Result: ",
      IF DictGet(test, "testResult", "") = "PASSED" THEN "Pass" ELSE "Fail", "\n",
      "  Mileage: ", DictGet(test, "odometerValue", "N/A"), " ",
      DictGet(test, "odometerUnit", ""), "\n">>
    \o RenderDefects(DictGet(test, "defects", <<>>))

RECURSIVE RenderTests(_)
RenderTests(tests) ==
    IF tests = <<>> THEN <<>>
    ELSE RenderTest(Head(tests)) \o RenderTests(Tail(tests))

RenderBrief(d) ==
    <<"Vehicle Registration: ", DictGet(d, "registration", "Unknown"), "\n",
      "Make: ", DictGet(d, "make", "Unknown"), "\n",
      "Model: ", DictGet(d, "model", "Unknown"), "\n",
      "First Registered: ", DictGet(d, "firstUsedDate", "Unknown"), "\n\n",
      "MoT Test History:\n">>
    \o RenderTests(d.motTests)

SummaryPrompt(mot_summary) ==
    <<"Summarize the following UK MoT vehicle history in a concise, human-readable format:">>
    \o mot_summary
    \o <<"The summary should highlight key points in a professional manner. ...">>

GenerationCall(system, prompt, max_tokens, resp) ==
    [api |-> "generation", model |-> "gpt-4o-mini", system |-> system,
     prompt |-> prompt, max_tokens |-> max_tokens, ok |-> resp.ok]

generate_mot_summary(vehicle_data) ==
    IF HasNoTests(vehicle_data)
    THEN {[calls |-> <<>>, value |-> NoDataMessage]}
    ELSE {[calls |-> <<GenerationCall("You are an expert vehicle report summarizer.",
                                      SummaryPrompt(RenderBrief(Value(vehicle_data))),
                                      SUMMARY_MAX_TOKENS, resp)>>,
           value |-> IF resp.ok THEN Strip(resp.content) ELSE SummaryError(resp.error)]
          : resp \in GenResponses}

(***************************************************************************)
(* handle_message.  An outcome of a handler is the replies it sent, the    *)
(* calls it made, the user's user_data after it, the record it fetched     *)
(* and the value it returned.                                              *)
(***************************************************************************)
SetSummary(data, summary) ==
    [k \in DOMAIN data \cup {"mot_summary"} |->
        IF k = "mot_summary" THEN summary ELSE data[k]]

NotFoundTurn_EntersFollowUp(user_input, f, data) ==
    [replies |-> <<FetchingNotice(user_input), NoHistoryNotice>>,
     calls |-> f.calls,
     user_data |-> SetSummary(data, NoDataMessage),
     fetched |-> f.value,
     ret |-> Some(FOLLOW_UP)]

NotFoundTurn(user_input, f, data) ==
    [replies |-> <<FetchingNotice(user_input), NoHistoryNotice>>,
     calls |-> f.calls,
     user_data |-> data,
     fetched |-> f.value,
     ret |-> None]

FoundTurn_SummaryNotStored(user_input, f, data) ==
    {[replies |-> <<FetchingNotice(user_input), SummaryReply(g.value), FollowUpPrompt>>,
      calls |-> f.calls \o g.calls,
      user_data |-> data,
      fetched |-> f.value,
      ret |-> Some(FOLLOW_UP)] : g \in generate_mot_summary(f.value)}

FoundTurn(user_input, f, data) ==
    {[replies |-> <<FetchingNotice(user_input), SummaryReply(g.value), FollowUpPrompt>>,
      calls |-> f.calls \o g.calls,
      user_data |-> SetSummary(data, g.value),
      fetched |-> f.value,
      ret |-> Some(FOLLOW_UP)] : g \in generate_mot_summary(f.value)}

handle_message(text, data) ==
    LET user_input == Upper(Strip(text))
    IN  UNION {IF Falsy(f.value)
               THEN {NotFoundTurn(user_input, f, data)}
               ELSE FoundTurn(user_input, f, data)
               : f \in fetch_vehicle_data(user_input)}

(***************************************************************************)
(* answer_follow_up_questions.                                             *)
(***************************************************************************)
IsExit_CaseSensitive(user_question) == user_question = ExitKeyword

IsExit(user_question) == Lower(user_question) = ExitKeyword

ExitTurn_ClearsSession(data) ==
    [replies |-> <<Farewell>>, calls |-> <<>>, user_data |-> EmptyDict,
     fetched |-> None, ret |-> Some(END)]

ExitTurn(data) ==
    [replies |-> <<Farewell>>, calls |-> <<>>, user_data |-> data,
     fetched |-> None, ret |-> Some(END)]

SummaryContext_NoDefault(data) ==
    DictGet(data, "mot_summary", <<>>)

SummaryContext(data) ==
    DictGet(data, "mot_summary", NoSummaryPlaceholder)

QuestionPrompt(mot_summary, user_question) ==
    <<"Here is the vehicle MoT summary:\n">> \o mot_summary
    \o <<"\n\n Answer the following question about this vehicle's MoT history:\n">>
    \o user_question

QuestionOutcome(user_question, data, resp, new_state) ==
    [replies |-> <<IF resp.ok THEN AnswerReply(Strip(resp.content))
                   ELSE ResponseError(resp.error)>>,
     calls |-> <<GenerationCall("You are an expert in UK MoT vehicle history.",
                                QuestionPrompt(SummaryContext(data), user_question),
                                FOLLOW_UP_MAX_TOKENS, resp)>>,
     user_data |-> data,
     fetched |-> None,
     ret |-> Some(new_state)]

QuestionTurn_LeavesFollowUp(user_question, data) ==
    {QuestionOutcome(user_question, data, resp, END) : resp \in GenResponses}

QuestionTurn(user_question, data) ==
    {QuestionOutcome(user_question, data, resp, FOLLOW_UP) : resp \in GenResponses}

answer_follow_up_questions(text, data) ==
    LET user_question == Strip(text)
    IN  IF IsExit(user_question)
        THEN {ExitTurn(data)}
        ELSE QuestionTurn(user_question, data)

(***************************************************************************)
(* The handlers registered in main and the dispatch of an update: the      *)
(* first handler of the group whose check accepts the update handles it.   *)
(***************************************************************************)
IsCommand(text) ==
    Len(text) >= 2 /\ text[1] = "/" /\ text[2] \notin Whitespace

RECURSIVE CommandName(_)
CommandName(rest) ==
    IF rest = <<>> \/ Head(rest) \in Whitespace \cup {"@"} THEN <<>>
    ELSE <<Head(rest)>> \o CommandName(Tail(rest))

IsStartCommand(text) ==
    IsCommand(text) /\ Lower(CommandName(Tail(text))) = <<"s","t","a","r","t">>

Keys == Chats \X Users

UpdateState(convs, key, new_state) ==
    IF new_state = Some(END)
    THEN [k \in DOMAIN convs \ {key} |-> convs[k]]
    ELSE IF new_state # None
         THEN [k \in DOMAIN convs \cup {key} |->
                  IF k = key THEN Value(new_state) ELSE convs[k]]
         ELSE convs

(***************************************************************************)
(* The state: the conversation states kept by the ConversationHandler      *)
(* (a key that is absent is a conversation that has not started), the      *)
(* user_data of each user, and the update processed last with the          *)
(* handler that took it, the replies sent, the outbound calls made and     *)
(* the record fetched.                                                     *)
(***************************************************************************)
VARIABLES conversations, user_data, update, dispatch, replies, calls, fetched

vars == <<conversations, user_data, update, dispatch, replies, calls, fetched>>

AwaitingRegistration(key) == key \notin DOMAIN conversations
AwaitingFollowUp(key) == key \in DOMAIN conversations /\ conversations[key] = FOLLOW_UP

Init ==
    /\ conversations = [k \in {} |-> FOLLOW_UP]
    /\ user_data = [u \in Users |-> EmptyDict]
    /\ update = [chat |-> 0, user |-> 0, text |-> <<>>]
    /\ dispatch = "idle"
    /\ replies = <<>>
    /\ calls = <<>>
    /\ fetched = None

Record(chat, user, text, via, r) ==
    /\ update' = [chat |-> chat, user |-> user, text |-> text]
    /\ dispatch' = via
    /\ replies' = r.replies
    /\ calls' = r.calls
    /\ fetched' = r.fetched
    /\ user_data' = [user_data EXCEPT ![user] = r.user_data]

\* CommandHandler("start", handle_message): the value returned is dropped.
StartCommand(chat, user, text) ==
    /\ IsStartCommand(text)
    /\ \E r \in handle_message(text, user_data[user]) :
          Record(chat, user, text, "start", r)
    /\ UNCHANGED conversations

\* conv_handler, no conversation for the key: the entry point.
EntryPoint(chat, user, text) ==
    /\ ~IsStartCommand(text)
    /\ AwaitingRegistration(<<chat, user>>)
    /\ ~IsCommand(text)
    /\ \E r \in handle_message(text, user_data[user]) :
          /\ Record(chat, user, text, "entry_points", r)
          /\ conversations' = UpdateState(conversations, <<chat, user>>, r.ret)

\* conv_handler, conversation in FOLLOW_UP.
FollowUpMessage(chat, user, text) ==
    /\ ~IsStartCommand(text)
    /\ AwaitingFollowUp(<<chat, user>>)
    /\ ~IsCommand(text)
    /\ \E r \in answer_follow_up_questions(text, user_data[user]) :
          /\ Record(chat, user, text, "states", r)
          /\ conversations' = UpdateState(conversations, <<chat, user>>, r.ret)

\* No handler accepts the update: a command other than /start.
Unhandled(chat, user, text) ==
    /\ ~IsStartCommand(text)
    /\ IsCommand(text)
    /\ update' = [chat |-> chat, user |-> user, text |-> text]
    /\ dispatch' = "unhandled"
    /\ replies' = <<>>
    /\ calls' = <<>>
    /\ fetched' = None
    /\ UNCHANGED <<conversations, user_data>>

Next ==
    \E chat \in Chats, user \in Users, text \in Texts :
        \/ StartCommand(chat, user, text)
        \/ EntryPoint(chat, user, text)
        \/ FollowUpMessage(chat, user, text)
        \/ Unhandled(chat, user, text)

Spec == Init /\ [][Next]_vars

TypeOK ==
    /\ DOMAIN conversations \subseteq Keys
    /\ \A k \in DOMAIN conversations : conversations[k] = FOLLOW_UP
    /\ \A u \in Users : DOMAIN user_data[u] \subseteq {"mot_summary"}
    /\ dispatch \in {"idle", "start", "entry_points", "states", "unhandled"}

(***************************************************************************)
(* The Follow-Up Responder on its own: answer_follow_up_questions applied  *)
(* to any text and any session data, with or without a stored summary.     *)
(***************************************************************************)
StoredSummaries ==
    {NoDataMessage} \cup {Strip(c) : c \in GenContents}
    \cup {SummaryError(e) : e \in GenErrors}

SessionData ==
    {EmptyDict} \cup {SetSummary(EmptyDict, summary) : summary \in StoredSummaries}

InitResponder ==
    /\ conversations \in {[k \in K |-> FOLLOW_UP] : K \in SUBSET Keys}
    /\ user_data \in [Users -> SessionData]
    /\ update = [chat |-> 0, user |-> 0, text |-> <<>>]
    /\ dispatch = "idle"
    /\ replies = <<>>
    /\ calls = <<>>
    /\ fetched = None

Respond(chat, user, text) ==
    \E r \in answer_follow_up_questions(text, user_data[user]) :
        /\ Record(chat, user, text, "states", r)
        /\ conversations' = UpdateState(conversations, <<chat, user>>, r.ret)

NextResponder ==
    \E chat \in Chats, user \in Users, text \in Texts : Respond(chat, user, text)

SpecResponder == InitResponder /\ [][NextResponder]_vars

(***************************************************************************)
(* Vocabulary of the properties.                                           *)
(***************************************************************************)
Key == <<update.chat, update.user>>
RanHandleMessage == dispatch \in {"start", "entry_points"}
RanFollowUp == dispatch = "states"
HasSummary(user) == "mot_summary" \in DOMAIN user_data[user]
CallsTo(api) == {i \in 1..Len(calls) : calls[i].api = api}
FailedGeneration == \E i \in CallsTo("generation") : ~calls[i].ok
Embeds(prompt, text) ==
    Len(prompt) >= 1 + Len(text) /\ SubSeq(prompt, 2, 1 + Len(text)) = text

ExitTexts ==
    { <<"e","x","i","t">>, <<" ","E","x","i","T"," ","\n">> }

\* C1: whenever handle_message has fetched a record, the summary it replied
\* with is stored as the session's summary and the conversation of that
\* chat and user is in FOLLOW_UP, whichever way the text reached the handler
\* (plain text or the /start command).
C1_RegistrationEntersFollowUp ==
    (RanHandleMessage /\ ~Falsy(fetched)) =>
        /\ HasSummary(update.user)
        /\ replies[2] = SummaryReply(user_data[update.user]["mot_summary"])
        /\ AwaitingFollowUp(Key)

\* C2: a turn of handle_message in which fetch_vehicle_data returned None
\* replies, after the progress notice, with exactly the no-history notice,
\* makes no generation call and leaves user_data and the conversation
\* states as they were.
C2_NullFetchKeepsSession ==
    [][ (RanHandleMessage' /\ fetched' = None) =>
            /\ Len(replies') = 2
            /\ replies'[1][1] = "Fetching MoT history for: "
            /\ replies'[2] = NoHistoryNotice
            /\ \A i \in 1..Len(calls') : calls'[i].api # "generation"
            /\ user_data' = user_data
            /\ conversations' = conversations ]_vars

C2_Witness ==
    /\ dispatch = "entry_points"
    /\ fetched = None
    /\ Len(calls) = 2
    /\ replies[2] = NoHistoryNotice
    /\ AwaitingRegistration(Key)

\* C3: a follow-up text that is "exit" up to letter case and surrounding
\* whitespace gets the farewell as its only reply, makes no outbound call
\* and ends the conversation, whatever summary is stored.
C3_ExitEndsSession ==
    (RanFollowUp /\ update.text \in ExitTexts) =>
        /\ replies = <<Farewell>>
        /\ calls = <<>>
        /\ AwaitingRegistration(Key)

C3_Witness ==
    /\ RanFollowUp
    /\ update.text = <<" ","E","x","i","T"," ","\n">>
    /\ HasSummary(update.user)
    /\ replies = <<Farewell>>

\* C4 as claimed: after the exit turn the session has no stored summary.
C4_ExitClearsSummary ==
    (RanFollowUp /\ replies = <<Farewell>>) => ~HasSummary(update.user)

\* C4 as amended: the exit turn ends the conversation of that chat and user
\* and leaves user_data as it was, so the summary stored before the exit is
\* still stored after it.
C4_ExitKeepsSummary ==
    [][ (dispatch' = "states" /\ replies' = <<Farewell>>) =>
            /\ user_data' = user_data
            /\ "mot_summary" \in DOMAIN user_data'[update'.user]
            /\ <<update'.chat, update'.user>> \notin DOMAIN conversations' ]_vars

C4_Witness ==
    /\ RanFollowUp
    /\ replies = <<Farewell>>
    /\ HasSummary(update.user)
    /\ AwaitingRegistration(Key)

\* C5: when the record fetched has no motTests key or an empty motTests
\* list, the turn makes no generation call, and the summary replied and
\* stored is the fixed no-data message.
C5_NoTestsNoGeneration ==
    (/\ RanHandleMessage
     /\ fetched # None
     /\ \/ "motTests" \notin DOMAIN Value(fetched)
        \/ Value(fetched).motTests = <<>>) =>
        /\ CallsTo("generation") = {}
        /\ DOMAIN Value(fetched) # {} =>
              /\ replies[2] = SummaryReply(NoDataMessage)
              /\ user_data[update.user]["mot_summary"] = NoDataMessage

C5_Witness ==
    /\ dispatch = "entry_points"
    /\ fetched # None
    /\ "motTests" \in DOMAIN Value(fetched)
    /\ Value(fetched).motTests = <<>>
    /\ replies[2] = SummaryReply(NoDataMessage)

\* C6: a turn in which a generation call failed sends a reply carrying the
\* inline error text and leaves the conversation of that chat and user in
\* FOLLOW_UP, in handle_message and in answer_follow_up_questions alike.
C6_GenerationFailureEntersFollowUp ==
    FailedGeneration =>
        /\ \/ RanHandleMessage
              /\ \E e \in GenErrors : replies[2] = SummaryReply(SummaryError(e))
           \/ RanFollowUp
              /\ \E e \in GenErrors : replies = <<ResponseError(e)>>
        /\ AwaitingFollowUp(Key)

\* C7: a non-exit question answered by answer_follow_up_questions makes one
\* generation call whose prompt embeds the stored summary of that user, or
\* the placeholder "No MoT summary available." when none is stored.
C7_PromptEmbedsSummaryOrPlaceholder ==
    (RanFollowUp /\ update.text \notin ExitTexts) =>
        /\ Len(calls) = 1
        /\ calls[1].api = "generation"
        /\ IF HasSummary(update.user)
           THEN Embeds(calls[1].prompt, user_data[update.user]["mot_summary"])
           ELSE Embeds(calls[1].prompt, <<"No MoT summary available.">>)

C7_Witness ==
    /\ RanFollowUp
    /\ update.text \notin ExitTexts
    /\ ~HasSummary(update.user)
    /\ Len(calls) = 1
    /\ Len(replies) = 1

\* C8 as claimed: every text sent to a conversation in FOLLOW_UP is handled
\* by answer_follow_up_questions; a non-exit text gets one reply and leaves
\* the conversation states and user_data as they were.
C8_AnyTextToResponder ==
    [][ AwaitingFollowUp(<<update'.chat, update'.user>>) =>
            /\ dispatch' = "states"
            /\ update'.text \notin ExitTexts =>
                  /\ Len(replies') = 1
                  /\ conversations' = conversations
                  /\ user_data' = user_data ]_vars

\* C8 as amended: every text that is not a command sent to a conversation
\* in FOLLOW_UP is handled by answer_follow_up_questions; a non-exit text
\* gets one reply and leaves the conversation states and user_data as they
\* were.  A command is never handled by answer_follow_up_questions.
C8_PlainTextToResponder ==
    [][ AwaitingFollowUp(<<update'.chat, update'.user>>) =>
            /\ update'.text \in CommandTexts => dispatch' \in {"start", "unhandled"}
            /\ update'.text \in PlainTexts =>
                  /\ dispatch' = "states"
                  /\ update'.text \notin ExitTexts =>
                        /\ Len(replies') = 1
                        /\ conversations' = conversations
                        /\ user_data' = user_data ]_vars

C8_Witness ==
    /\ RanFollowUp
    /\ update.text = <<"e","x","i","t"," ","?">>
    /\ Len(replies) = 1
    /\ AwaitingFollowUp(Key)

\* C9: a lookup makes exactly one token POST, first; it makes at most one
\* record GET, only when that POST returned a token, and with that token;
\* when the POST returned no token the lookup returns None without a GET.
\* A follow-up turn makes neither call.
C9_TokenBeforeRecord ==
    /\ RanHandleMessage =>
          /\ Cardinality(CallsTo("token")) = 1
          /\ calls[1].api = "token"
          /\ Cardinality(CallsTo("record")) <= 1
          /\ \A i \in CallsTo("record") :
                /\ i = 2
                /\ calls[1].returned = Some(calls[i].token)
                /\ calls[i].token \in Tokens
          /\ calls[1].returned = None =>
                (CallsTo("record") = {} /\ fetched = None)
    /\ ~RanHandleMessage => (CallsTo("token") = {} /\ CallsTo("record") = {})

C9_Witness ==
    /\ RanHandleMessage
    /\ Len(calls) >= 2
    /\ calls[2].api = "record"
    /\ calls[1].returned = Some(calls[2].token)

\* C10: every conversation in FOLLOW_UP belongs to a user with a stored
\* summary, and every generation call of a follow-up turn is made for a
\* user with a stored summary, which its prompt embeds.
C10_FollowUpHasSummary ==
    /\ \A key \in DOMAIN conversations :
          conversations[key] = FOLLOW_UP => HasSummary(key[2])
    /\ (RanFollowUp /\ calls # <<>>) =>
          /\ HasSummary(update.user)
          /\ Embeds(calls[1].prompt, user_data[update.user]["mot_summary"])

C10_Witness ==
    /\ RanFollowUp
    /\ Len(calls) = 1
    /\ AwaitingFollowUp(Key)
    /\ HasSummary(update.user)

====
